---- MODULE Spec2Model ----
(***************************************************************************)
(* Row materialization of lib/rome/core/rows/rows.py.                      *)
(*                                                                         *)
(* Python values are records tagged with their Python type in field t;     *)
(* every other field is an attribute (or a dict key) of the value, so that *)
(* has_attribute / get_attribute are questions about the record's domain.  *)
(*                                                                         *)
(* Spec   : one call of construct_rows, phase by phase.                    *)
(* SpecFn : the helper functions applied to inputs drawn from bounded sets.*)
(***************************************************************************)
EXTENDS Integers, Sequences, FiniteSets, TLC

VARIABLES
    pc,                  \* position of the call inside construct_rows
    models,              \* argument: the selection list
    criterions,          \* argument: the criteria handed to the tuple builder
    hints,               \* argument: the index hints
    request_uuid,        \* the local request_uuid (argument, then resolved)
    file_logger_enabled, \* module flag set at import time
    model_set,           \* extract_models(models)
    labels,              \* table name per entity of model_set
    list_results,        \* loaded collections, in load order
    tuples,              \* what the tuple builder returned
    rows,                \* extracted sub rows
    final_rows,          \* rows accumulated by the no-function branch
    returned,            \* the value construct_rows returned (None before)
    store_reads,         \* log of get_objects calls
    decoder_lookups,     \* log of get_decoder calls (their request_uuid)
    uuid_calls,          \* number of uuid.uuid1() calls
    log_records,         \* records given to logging.info
    file_records,        \* records given to file_logger.info
    fn,                  \* SpecFn: the helper applied
    arg,                 \* SpecFn: its arguments
    ret                  \* SpecFn: its result (None before the call)

vars == <<pc, models, criterions, hints, request_uuid, file_logger_enabled,
          model_set, labels, list_results, tuples, rows, final_rows, returned,
          store_reads, decoder_lookups, uuid_calls, log_records, file_records,
          fn, arg, ret>>

(***************************************************************************)
(* Bounds of the model.                                                    *)
(***************************************************************************)
MaxSel == 2       \* longest selection list given to construct_rows
MaxObjs == 2      \* most objects one store read returns
MaxList == 3      \* longest selection list given to extract_models alone
MaxHints == 2     \* longest hint list given to the hint filter alone
MaxClauses == 2   \* most clauses of a composite selectable

(***************************************************************************)
(* Python values.                                                          *)
(***************************************************************************)
None == [t |-> "NoneType"]

PyVal(ty, n) == [t |-> ty, v |-> n]

PyInt(n) == PyVal("int", n)

\* a dict carrying the key "timezone" (an encoded datetime)
TzDict(n) == [t |-> "dict", v |-> n, timezone |-> "UTC"]

\* uuid.uuid1(): the n-th generated id; caller ids are Uuid(0)
Uuid(n) == [t |-> "UUID", v |-> n]

RangeOf(s) == {s[i] : i \in DOMAIN s}

SeqsUpTo(S, n) == UNION {[1..k -> S] : k \in 0..n}

Attrs(obj) == DOMAIN obj \ {"t"}

\* a dict's keys and an object's attributes are both the record's fields
has_attribute(obj, key) == key \in Attrs(obj)

get_attribute(obj, key, default) ==
    IF key \in Attrs(obj) THEN obj[key] ELSE default

(***************************************************************************)
(* Entities.  tablename stands for __tablename__, secondary_indexes for    *)
(* _secondary_indexes.                                                     *)
(***************************************************************************)
Named(name) == [t |-> "DeclarativeMeta", tablename |-> name]

NamedIndexed(name, idx) ==
    [t |-> "DeclarativeMeta", tablename |-> name, secondary_indexes |-> idx]

TableDescriptor(name) == [t |-> "Column", table |-> [t |-> "Table", name |-> name]]

MappedClass(name) == [t |-> "AliasedInsp", class_ |-> Named(name)]

Composite(cl) == [t |-> "ClauseList", clauses |-> cl]

Unknown == [t |-> "object"]

\* an entity exposing both its own table name and a table descriptor
NamedWithTable(name, other) ==
    [t |-> "DeclarativeMeta", tablename |-> name,
     table |-> [t |-> "Table", name |-> other]]

RECURSIVE find_table_name(_)
find_table_name(model) ==
    IF has_attribute(model, "tablename") THEN model.tablename
    ELSE IF has_attribute(model, "table") THEN model.table.name
    ELSE IF has_attribute(model, "class_") THEN model.class_.tablename
    ELSE IF has_attribute(model, "clauses")
         THEN (IF Len(model.clauses) > 0
               THEN find_table_name(model.clauses[1])
               ELSE "none")
    ELSE "none"

(***************************************************************************)
(* Selectables and hints.                                                  *)
(***************************************************************************)
Selection(model, attributes, is_hidden) ==
    [model |-> model, attributes |-> attributes, is_function |-> FALSE,
     function |-> "none", is_hidden |-> is_hidden]

FunctionSelection(model, function, is_hidden) ==
    [model |-> model, attributes |-> "none", is_function |-> TRUE,
     function |-> function, is_hidden |-> is_hidden]

Hint(table_name, attribute, value) ==
    [table_name |-> table_name, attribute |-> attribute, value |-> value]

\* variant: every visible selectable must be a function
all_visible_are_functions(l) ==
    \A i \in DOMAIN l : l[i].is_hidden \/ l[i].is_function

any_selectable_is_function(l) ==
    \E i \in DOMAIN l : ~l[i].is_hidden /\ l[i].is_function

RECURSIVE extract_models_loop(_, _, _)
extract_models_loop(sels, already_processed, result) ==
    IF sels = <<>> THEN result
    ELSE LET selectable == Head(sels) IN
         IF selectable.model \notin already_processed
         THEN extract_models_loop(Tail(sels),
                                  already_processed \cup {selectable.model},
                                  Append(result, selectable))
         ELSE extract_models_loop(Tail(sels), already_processed, result)

\* variant: no deduplication by entity
extract_models_no_dedup(l) == SelectSeq(l, LAMBDA x : ~x.is_function)

extract_models(l) ==
    extract_models_loop(SelectSeq(l, LAMBDA x : ~x.is_function), {}, <<>>)

\* variant: the hint's table is not compared with the entity's
reduced_hints_any_table(selectable, hs) ==
    LET authorized_secondary_indexes ==
            get_attribute(selectable.model, "secondary_indexes", <<>>)
        selected_hints ==
            SelectSeq(hs, LAMBDA x :
                \/ x.attribute = "id"
                \/ x.attribute \in RangeOf(authorized_secondary_indexes))
    IN [i \in DOMAIN selected_hints |->
            <<selected_hints[i].attribute, selected_hints[i].value>>]

\* lines 205-208: the hints handed to get_objects for one entity
reduced_hints(selectable, hs) ==
    LET tablename == find_table_name(selectable.model)
        authorized_secondary_indexes ==
            get_attribute(selectable.model, "secondary_indexes", <<>>)
        selected_hints ==
            SelectSeq(hs, LAMBDA x :
                /\ x.table_name = tablename
                /\ \/ x.attribute = "id"
                   \/ x.attribute \in RangeOf(authorized_secondary_indexes))
    IN [i \in DOMAIN selected_hints |->
            <<selected_hints[i].attribute, selected_hints[i].value>>]

(***************************************************************************)
(* Deferred values.                                                        *)
(***************************************************************************)
LazyValue(value, uuid) ==
    [t |-> "LazyValue", wrapped_value |-> value, request_uuid |-> uuid]

\* decoder.desimplify: an encoded dict is decoded, anything else is itself
desimplify(value) ==
    IF value.t = "dict" THEN [t |-> "datetime", v |-> value.v] ELSE value

PassThroughTypes == {"int", "str", "float", "unicode"}

wrap_with_lazy_value(value, only_if_necessary, uuid) ==
    IF value = None THEN None
    ELSE IF only_if_necessary /\ value.t \in PassThroughTypes THEN value
    ELSE IF value.t = "dict" /\ "timezone" \in Attrs(value) THEN desimplify(value)
    ELSE LazyValue(value, uuid)

\* the get_decoder calls wrap_with_lazy_value makes on value (line 151)
wrap_decoder_lookups(value, only_if_necessary, uuid) ==
    IF value = None THEN <<>>
    ELSE IF only_if_necessary /\ value.t \in PassThroughTypes THEN <<>>
    ELSE IF value.t = "dict" /\ "timezone" \in Attrs(value) THEN <<uuid>>
    ELSE <<>>

(***************************************************************************)
(* Rows.                                                                   *)
(***************************************************************************)
RECURSIVE ConcatAll(_)
ConcatAll(ss) == IF ss = <<>> THEN <<>> ELSE Head(ss) \o ConcatAll(Tail(ss))

List(items) == [t |-> "list", items |-> items]

\* sqlalchemy's KeyedTuple: the values, and each label naming its value
\* (the last one when a label occurs twice)
KeyedTuple(vals, lbls) ==
    LET n == IF Len(vals) < Len(lbls) THEN Len(vals) ELSE Len(lbls)
        last(k) == CHOOSE i \in 1..n :
                      /\ lbls[i] = k
                      /\ \A j \in 1..n : lbls[j] = k => j <= i
    IN [k \in {"t", "vals"} \cup {lbls[i] : i \in 1..n} |->
            IF k = "t" THEN "KeyedTuple"
            ELSE IF k = "vals" THEN vals
            ELSE vals[last(k)]]

extract_sub_row(row, selectables, lbls) ==
    IF Len(selectables) > 1
    THEN KeyedTuple([i \in DOMAIN lbls |-> get_attribute(row, lbls[i], None)], lbls)
    ELSE get_attribute(row, find_table_name(selectables[1].model), None)

\* a stored object of a table: a NovaBase instance
Obj(table, i) == [t |-> table, id |-> PyInt(i), updated_at |-> TzDict(i)]

is_novabase(obj) == obj.t \in {"service", "compute_node"}

\* what one get_objects call may return: up to MaxObjs objects, one of
\* which may be absent
Collections(table) ==
    {[i \in 1..n |-> IF i = k THEN None ELSE Obj(table, i)] :
        n \in 0..MaxObjs, k \in 0..MaxObjs}

RECURSIVE Product(_)
Product(cols) ==
    IF cols = <<>> THEN << <<>> >>
    ELSE LET rest == Product(Tail(cols))
             col == Head(cols)
         IN ConcatAll([i \in DOMAIN col |->
                          [j \in DOMAIN rest |-> <<col[i]>> \o rest[j]]])

Criteria == {"none", "same_id"}

Satisfies(criterion, product) ==
    \/ criterion = "none"
    \/ /\ criterion = "same_id"
       /\ \A i, j \in DOMAIN product :
             (product[i] # None /\ product[j] # None)
                => product[i].id = product[j].id

\* the tuple builder: the product of the collections in label order, a
\* tuple failing the criteria replaced by the empty tuple
building_tuples(results, lbls, criterion) ==
    IF lbls = <<>> THEN <<>>
    ELSE LET product == Product(results)
         IN [i \in DOMAIN product |->
                IF Satisfies(criterion, product[i]) THEN product[i] ELSE <<>>]

\* lines 219-222
filtering_tuples(tps, selectables, lbls) ==
    LET kept == SelectSeq(tps, LAMBDA product : Len(product) > 0)
    IN [i \in DOMAIN kept |->
            extract_sub_row(KeyedTuple(kept[i], lbls), selectables, lbls)]

\* variant: hidden functions are not projected
visible_selection(l) == SelectSeq(l, LAMBDA x : ~x.is_hidden)

showable_selection(l) ==
    SelectSeq(l, LAMBDA x : (~x.is_hidden) \/ x.is_function)

\* selection._function._function(rows)
apply_function(selection, rws) == PyInt(Len(rws))

\* lines 233-241
function_row(l, rws) ==
    LET showable == showable_selection(l)
        final_row == [i \in DOMAIN showable |->
                         IF showable[i].is_function
                         THEN apply_function(showable[i], rws)
                         ELSE None]
    IN List([i \in DOMAIN final_row |-> desimplify(final_row[i])])

\* lines 246-260: what one selection appends to final_row for one row
row_entries(row, selection, rws) ==
    IF selection.is_function THEN <<apply_function(selection, rws)>>
    ELSE LET key == find_table_name(selection.model)
             value == IF ~is_novabase(row) /\ has_attribute(row, key)
                      THEN get_attribute(row, key, None)
                      ELSE row
         IN IF value # None
            THEN (IF selection.attributes # "*"
                  THEN <<get_attribute(value, selection.attributes, None)>>
                  ELSE <<value>>)
            ELSE <<>>

\* final_row of one row before line 261
unwrapped_row(row, l, rws) ==
    LET showable == showable_selection(l)
    IN ConcatAll([i \in DOMAIN showable |-> row_entries(row, showable[i], rws)])

\* lines 243-265
select_attributes(l, rws, uuid) ==
    LET per_row == [r \in DOMAIN rws |->
                       LET final_row == unwrapped_row(rws[r], l, rws)
                       IN [i \in DOMAIN final_row |->
                              wrap_with_lazy_value(final_row[i], TRUE, uuid)]]
    IN IF Len(showable_selection(l)) = 1
       THEN ConcatAll(per_row)
       ELSE [r \in DOMAIN per_row |-> List(per_row[r])]

\* the get_decoder calls of lines 243-265
select_decoder_lookups(l, rws, uuid) ==
    LET entries == ConcatAll([r \in DOMAIN rws |-> unwrapped_row(rws[r], l, rws)])
    IN ConcatAll([i \in DOMAIN entries |->
                     wrap_decoder_lookups(entries[i], TRUE, uuid)])

(***************************************************************************)
(* One call of construct_rows.                                             *)
(***************************************************************************)
Service == NamedIndexed("service", <<"host">>)

ComputeNode == Named("compute_node")

Selectables ==
    {Selection(Service, "*", FALSE), Selection(Service, "updated_at", FALSE),
     Selection(ComputeNode, "*", TRUE), Selection(ComputeNode, "id", FALSE),
     FunctionSelection(None, "count", FALSE),
     FunctionSelection(None, "count", TRUE)}

HintLists ==
    {<<>>,
     <<Hint("service", "id", PyInt(1)), Hint("compute_node", "host", PyInt(1)),
       Hint("service", "host", PyInt(2))>>}

Init ==
    /\ pc = "part1"
    /\ models \in SeqsUpTo(Selectables, MaxSel)
    /\ criterions \in Criteria
    /\ hints \in HintLists
    /\ request_uuid \in {None, Uuid(0)}
    /\ file_logger_enabled \in BOOLEAN
    /\ model_set = <<>>
    /\ labels = <<>>
    /\ list_results = <<>>
    /\ tuples = <<>>
    /\ rows = <<>>
    /\ final_rows = <<>>
    /\ returned = <<>>
    /\ store_reads = <<>>
    /\ decoder_lookups = <<>>
    /\ uuid_calls = 0
    /\ log_records = <<>>
    /\ file_records = <<>>
    /\ fn = "none"
    /\ arg = None
    /\ ret = None

\* lines 168-171
resolve_request_uuid(uuid, calls) ==
    IF uuid = None THEN Uuid(calls + 1) ELSE uuid

\* lines 163-200: the correlation id, the model set and its labels (columns
\* is filled from models, a list, which has neither class_ nor
\* _sa_class_manager: it stays empty and is never read)
BuildingQuery ==
    /\ pc = "part1"
    /\ request_uuid' = resolve_request_uuid(request_uuid, uuid_calls)
    /\ uuid_calls' = IF request_uuid = None THEN uuid_calls + 1 ELSE uuid_calls
    /\ model_set' = extract_models(models)
    /\ labels' = [i \in DOMAIN extract_models(models) |->
                     find_table_name(extract_models(models)[i].model)]
    /\ pc' = "part2"
    /\ UNCHANGED <<models, criterions, hints, file_logger_enabled, list_results,
                   tuples, rows, final_rows, returned, store_reads,
                   decoder_lookups, log_records, file_records, fn, arg, ret>>

\* variant: the store read does not carry the correlation id
get_objects_call_without_uuid(selectable, uuid, hs) ==
    [table_name |-> find_table_name(selectable.model),
     request_uuid |-> None,
     skip_loading |-> FALSE,
     hints |-> reduced_hints(selectable, hs)]

\* the get_objects call of line 209, as the store sees it
get_objects_call(selectable, uuid, hs) ==
    [table_name |-> find_table_name(selectable.model),
     request_uuid |-> uuid,
     skip_loading |-> FALSE,
     hints |-> reduced_hints(selectable, hs)]

\* lines 204-210: one iteration of the loading loop
LoadingObjects ==
    /\ pc = "part2"
    /\ Len(list_results) < Len(model_set)
    /\ LET selectable == model_set[Len(list_results) + 1]
           call == get_objects_call(selectable, request_uuid, hints)
       IN /\ store_reads' = Append(store_reads, call)
          /\ \E objects \in Collections(call.table_name) :
                list_results' = Append(list_results, objects)
    /\ UNCHANGED <<pc, models, criterions, hints, request_uuid,
                   file_logger_enabled, model_set, labels, tuples, rows,
                   final_rows, returned, decoder_lookups, uuid_calls,
                   log_records, file_records, fn, arg, ret>>

\* lines 213-216
BuildingTuples ==
    /\ pc = "part2"
    /\ Len(list_results) = Len(model_set)
    /\ tuples' = building_tuples(list_results, labels, criterions)
    /\ pc' = "part4"
    /\ UNCHANGED <<models, criterions, hints, request_uuid, file_logger_enabled,
                   model_set, labels, list_results, rows, final_rows, returned,
                   store_reads, decoder_lookups, uuid_calls, log_records,
                   file_records, fn, arg, ret>>

\* lines 218-229
FilteringTuples ==
    /\ pc = "part4"
    /\ rows' = filtering_tuples(tuples, model_set, labels)
    /\ decoder_lookups' = Append(decoder_lookups, request_uuid)
    /\ pc' = "part6"
    /\ UNCHANGED <<models, criterions, hints, request_uuid, file_logger_enabled,
                   model_set, labels, list_results, tuples, final_rows, returned,
                   store_reads, uuid_calls, log_records, file_records,
                   fn, arg, ret>>

\* lines 232-241: the function branch returns at once
SelectingFunctions ==
    /\ pc = "part6"
    /\ any_selectable_is_function(models)
    /\ returned' = <<function_row(models, rows)>>
    /\ pc' = "returned"
    /\ UNCHANGED <<models, criterions, hints, request_uuid, file_logger_enabled,
                   model_set, labels, list_results, tuples, rows, final_rows,
                   store_reads, decoder_lookups, uuid_calls, log_records,
                   file_records, fn, arg, ret>>

\* lines 242-266
SelectingAttributes ==
    /\ pc = "part6"
    /\ ~any_selectable_is_function(models)
    /\ final_rows' = select_attributes(models, rows, request_uuid)
    /\ decoder_lookups' =
           decoder_lookups \o select_decoder_lookups(models, rows, request_uuid)
    /\ pc' = "part7"
    /\ UNCHANGED <<models, criterions, hints, request_uuid, file_logger_enabled,
                   model_set, labels, list_results, tuples, rows, returned,
                   store_reads, uuid_calls, log_records, file_records,
                   fn, arg, ret>>

\* line 268: the record, built from the fallback description
query_information(l, crit) ==
    [t |-> "query_information", models |-> l, criterions |-> crit]

\* lines 268-283
LoggingQuery ==
    /\ pc = "part7"
    /\ log_records' = Append(log_records, query_information(models, criterions))
    /\ file_records' = IF file_logger_enabled
                       THEN Append(file_records,
                                   query_information(models, criterions))
                       ELSE file_records
    /\ returned' = final_rows
    /\ pc' = "returned"
    /\ UNCHANGED <<models, criterions, hints, request_uuid, file_logger_enabled,
                   model_set, labels, list_results, tuples, rows, final_rows,
                   store_reads, decoder_lookups, uuid_calls, fn, arg, ret>>

Next ==
    \/ BuildingQuery
    \/ LoadingObjects
    \/ BuildingTuples
    \/ FilteringTuples
    \/ SelectingFunctions
    \/ SelectingAttributes
    \/ LoggingQuery

Spec == Init /\ [][Next]_vars

(***************************************************************************)
(* The helper functions on their own.                                      *)
(***************************************************************************)
Tables == {"service", "compute_node"}

ClauseModels ==
    {Unknown, Named("service"), TableDescriptor("compute_node"),
     Composite(<<>>), Composite(<<Unknown, MappedClass("service")>>),
     Composite(<<Named("compute_node")>>)}

Entities ==
    {Named(n) : n \in Tables} \cup {TableDescriptor(n) : n \in Tables}
        \cup {MappedClass(n) : n \in Tables}
        \cup {Unknown, NamedWithTable("service", "compute_node")}
        \cup {Composite(cl) : cl \in SeqsUpTo(ClauseModels, MaxClauses)}

FnSelectables ==
    {Selection(Named("service"), "*", FALSE),
     Selection(Named("service"), "id", FALSE),
     Selection(Named("compute_node"), "*", TRUE),
     FunctionSelection(Named("service"), "count", FALSE),
     FunctionSelection(None, "count", FALSE)}

HintEntities ==
    {Service, Named("service"),
     NamedIndexed("compute_node", <<"vcpus", "host">>), Unknown}

FnHints == {Hint(n, a, PyInt(1)) : n \in Tables, a \in {"id", "host", "vcpus"}}

Values ==
    {None, TzDict(0), TzDict(1), Obj("service", 1)}
        \cup {PyVal(ty, n) :
                ty \in {"int", "str", "float", "unicode", "bool", "long",
                        "dict", "list"},
                n \in {0, 1}}

FnArgs(f) ==
    CASE f = "find_table_name" -> {[model |-> m] : m \in Entities}
      [] f = "extract_models" ->
            {[l |-> l] : l \in SeqsUpTo(FnSelectables, MaxList)}
      [] f = "reduced_hints" ->
            {[selectable |-> Selection(e, "*", FALSE), hints |-> hs] :
                e \in HintEntities, hs \in SeqsUpTo(FnHints, MaxHints)}
      [] f = "wrap_with_lazy_value" ->
            {[value |-> x, only_if_necessary |-> b, request_uuid |-> u] :
                x \in Values, b \in BOOLEAN, u \in {None, Uuid(0), Uuid(1)}}

InitFn ==
    /\ pc = "fn"
    /\ fn \in {"find_table_name", "extract_models", "reduced_hints",
               "wrap_with_lazy_value"}
    /\ arg \in FnArgs(fn)
    /\ ret = None
    /\ models = <<>>
    /\ criterions = "none"
    /\ hints = <<>>
    /\ request_uuid = None
    /\ file_logger_enabled = FALSE
    /\ model_set = <<>>
    /\ labels = <<>>
    /\ list_results = <<>>
    /\ tuples = <<>>
    /\ rows = <<>>
    /\ final_rows = <<>>
    /\ returned = <<>>
    /\ store_reads = <<>>
    /\ decoder_lookups = <<>>
    /\ uuid_calls = 0
    /\ log_records = <<>>
    /\ file_records = <<>>

FnFrame ==
    UNCHANGED <<models, criterions, hints, request_uuid, file_logger_enabled,
                model_set, labels, list_results, tuples, rows, final_rows,
                returned, store_reads, uuid_calls, log_records, file_records,
                fn, arg>>

CallFindTableName ==
    /\ pc = "fn" /\ fn = "find_table_name"
    /\ ret' = [value |-> find_table_name(arg.model)]
    /\ pc' = "fn_done"
    /\ UNCHANGED decoder_lookups
    /\ FnFrame

CallExtractModels ==
    /\ pc = "fn" /\ fn = "extract_models"
    /\ ret' = [value |-> extract_models(arg.l)]
    /\ pc' = "fn_done"
    /\ UNCHANGED decoder_lookups
    /\ FnFrame

CallReducedHints ==
    /\ pc = "fn" /\ fn = "reduced_hints"
    /\ ret' = [value |-> reduced_hints(arg.selectable, arg.hints)]
    /\ pc' = "fn_done"
    /\ UNCHANGED decoder_lookups
    /\ FnFrame

CallWrapWithLazyValue ==
    /\ pc = "fn" /\ fn = "wrap_with_lazy_value"
    /\ ret' = [value |-> wrap_with_lazy_value(arg.value, arg.only_if_necessary,
                                              arg.request_uuid)]
    /\ decoder_lookups' =
           decoder_lookups \o wrap_decoder_lookups(arg.value,
                                                   arg.only_if_necessary,
                                                   arg.request_uuid)
    /\ pc' = "fn_done"
    /\ FnFrame

NextFn ==
    \/ CallFindTableName
    \/ CallExtractModels
    \/ CallReducedHints
    \/ CallWrapWithLazyValue

SpecFn == InitFn /\ [][NextFn]_vars

(***************************************************************************)
(* Properties.                                                             *)
(***************************************************************************)
\* the selectables that take part in the projection, in selection order
Projected(l) == SelectSeq(l, LAMBDA x : x.is_function \/ ~x.is_hidden)

NonEmptyTuples == Cardinality({i \in DOMAIN tuples : Len(tuples[i]) > 0})

VisibleFunction == \E i \in DOMAIN models : models[i].is_function /\ ~models[i].is_hidden

SomeFunction == \E i \in DOMAIN models : models[i].is_function

\* the single synthesized row: per projected selectable the function's
\* result over all rows, None for a plain column
SynthesizedRow ==
    List([k \in DOMAIN Projected(models) |->
             IF Projected(models)[k].is_function
             THEN PyInt(NonEmptyTuples)
             ELSE None])

\* C1 as stated: whenever some selectable of the selection list is a
\* function, construct_rows returns exactly one element, the synthesized row.
C1_AnyFunctionOneRow ==
    (pc = "returned" /\ SomeFunction)
        => (Len(returned) = 1 /\ returned[1] = SynthesizedRow)

\* C1 amended: whenever some non-hidden selectable is a function,
\* construct_rows returns exactly one element, the synthesized row, whatever
\* the number of surviving tuples.
C1_VisibleFunctionOneRow ==
    (pc = "returned" /\ VisibleFunction)
        => (Len(returned) = 1 /\ returned[1] = SynthesizedRow)

C1_Witness ==
    /\ pc = "returned"
    /\ VisibleFunction
    /\ NonEmptyTuples = 2
    /\ \E i \in DOMAIN models : ~models[i].is_function /\ ~models[i].is_hidden
    /\ returned = <<List(<<PyInt(2), None>>)>>

\* C2: when no selectable is a function the returned sequence has exactly
\* one entry per non-empty product tuple of the builder.
C2_OneEntryPerTuple ==
    (pc = "returned" /\ ~SomeFunction) => Len(returned) = NonEmptyTuples

\* C3 as stated: in the no-function branch the result is flattened (scalars,
\* not lists) iff exactly one selectable is non-hidden.
C3_FlattenIffOneVisible ==
    (pc = "returned" /\ ~VisibleFunction)
        => LET visible == Cardinality({i \in DOMAIN models : ~models[i].is_hidden})
           IN \A r \in DOMAIN returned :
                 (returned[r].t = "list") <=> (visible # 1)

\* C3 amended: in the no-function branch the result is flattened (scalars,
\* not lists) iff exactly one selectable is projected, a projected selectable
\* being one that is non-hidden or a function.
C3_FlattenIffOneProjected ==
    (pc = "returned" /\ ~VisibleFunction)
        => \A r \in DOMAIN returned :
              (returned[r].t = "list") <=> (Len(Projected(models)) # 1)

C3_Witness ==
    /\ pc = "returned"
    /\ ~VisibleFunction
    /\ Len(models) = 2
    /\ Len(Projected(models)) = 1
    /\ Len(returned) = 2
    /\ \A r \in DOMAIN returned : returned[r].t = "LazyValue"

FnDone(f) == pc = "fn_done" /\ fn = f

\* index of the first non-function selectable of l on model m
FirstOn(l, m) ==
    CHOOSE i \in DOMAIN l :
        /\ ~l[i].is_function /\ l[i].model = m
        /\ \A j \in 1..(i - 1) : l[j].is_function \/ l[j].model # m

\* C4: extract_models returns no entity twice; it holds exactly the entities
\* of the non-function selectables, each represented by its first
\* selectable, in order of first occurrence.
C4_ModelSetDistinct ==
    FnDone("extract_models")
        => LET l == arg.l
               r == ret.value
               plain == {i \in DOMAIN l : ~l[i].is_function}
           IN /\ \A i, j \in DOMAIN r : r[i].model = r[j].model => i = j
              /\ {r[i].model : i \in DOMAIN r} = {l[i].model : i \in plain}
              /\ \A i \in DOMAIN r : r[i] = l[FirstOn(l, r[i].model)]
              /\ \A i, j \in DOMAIN r :
                    i < j => FirstOn(l, r[i].model) < FirstOn(l, r[j].model)

C4_Witness ==
    /\ FnDone("extract_models")
    /\ Len(arg.l) = 3
    /\ arg.l[1].model = arg.l[2].model
    /\ arg.l[1] # arg.l[2]
    /\ arg.l[3].model # arg.l[1].model
    /\ ret.value = <<arg.l[1], arg.l[3]>>

\* the hints of hs usable for an entity, as (attribute, value) pairs
RECURSIVE UsableHints(_, _, _)
UsableHints(hs, table, indexes) ==
    IF hs = <<>> THEN <<>>
    ELSE LET h == Head(hs)
             rest == UsableHints(Tail(hs), table, indexes)
         IN IF h.table_name = table /\ (h.attribute = "id" \/ h.attribute \in indexes)
            THEN <<(<<h.attribute, h.value>>)>> \o rest
            ELSE rest

DeclaredIndexes(model) ==
    IF "secondary_indexes" \in DOMAIN model
    THEN RangeOf(model.secondary_indexes)
    ELSE {}

\* C5: the reduced hints of an entity are the (attribute, value) pairs, in
\* input order, of the hints on the entity's table whose attribute is "id"
\* or a declared secondary index.
C5_ReducedHints ==
    FnDone("reduced_hints")
        => ret.value = UsableHints(arg.hints,
                                   find_table_name(arg.selectable.model),
                                   DeclaredIndexes(arg.selectable.model))

C5_Witness ==
    /\ FnDone("reduced_hints")
    /\ arg.selectable.model = Service
    /\ Len(arg.hints) = 2
    /\ arg.hints[1].table_name = "compute_node"
    /\ arg.hints[2] = Hint("service", "host", PyInt(1))
    /\ ret.value = <<(<<"host", PyInt(1)>>)>>

\* the distinct entities of the non-function selectables of l
DistinctEntities(l) == {l[i].model : i \in {j \in DOMAIN l : ~l[j].is_function}}

C6_Reads ==
    /\ Len(store_reads) = Len(list_results)
    /\ Len(store_reads) <= Len(model_set)
    /\ pc = "part1" => store_reads = <<>>
    /\ pc \notin {"part1", "part2"} =>
          /\ Len(store_reads) = Cardinality(DistinctEntities(models))
          /\ \A e \in DistinctEntities(models) :
                \E i \in DOMAIN store_reads : model_set[i].model = e
    /\ pc \in {"part1", "part2"} => tuples = <<>> /\ rows = <<>>
    /\ \A i \in DOMAIN store_reads :
          /\ store_reads[i].table_name = labels[i]
          /\ labels[i] = find_table_name(model_set[i].model)
          /\ \A k \in DOMAIN list_results[i] :
                list_results[i][k] # None => list_results[i][k].t = labels[i]
          /\ store_reads[i].request_uuid = request_uuid
    /\ \A i \in DOMAIN decoder_lookups : decoder_lookups[i] = request_uuid
    /\ pc # "part1" => request_uuid # None

C6_Step ==
    /\ pc = "part1" =>
          /\ request_uuid # None => (request_uuid' = request_uuid /\ uuid_calls' = 0)
          /\ request_uuid = None => (request_uuid' = Uuid(1) /\ uuid_calls' = 1)
    /\ pc # "part1" => (request_uuid' = request_uuid /\ uuid_calls' = uuid_calls)
    /\ store_reads' # store_reads =>
          /\ pc = "part2" /\ pc' = "part2"
          /\ \E call \in {store_reads'[Len(store_reads')]} :
                store_reads' = Append(store_reads, call)

\* C6: the store is read exactly once per entity of the model set, in
\* resolution order and before tuple building starts, the i-th collection
\* belonging to the i-th label; every store read and decoder lookup carries
\* the one correlation id of the request, the caller's when given and
\* otherwise generated once.
C6_ReadsAndCorrelation == [](C6_Reads) /\ [][C6_Step]_vars

C6_Witness ==
    /\ pc = "returned"
    /\ Len(store_reads) = 2
    /\ store_reads[1].table_name # store_reads[2].table_name
    /\ uuid_calls = 1
    /\ Len(decoder_lookups) >= 3
    /\ Len(list_results[1]) = 2

\* C7: a call that returns has emitted exactly one instrumentation record,
\* on the function branch and on the no-function branch.
C7_OneRecordPerCall ==
    pc = "returned" => Len(log_records) = 1

\* the types the claim counts as primitive: numeric, string, boolean
ClaimedPrimitives == {"int", "long", "float", "str", "unicode", "bool"}

\* C8: with only_if_necessary left at its default, None stays None, a
\* primitive is returned unchanged, a dict with the key "timezone" is decoded
\* with the request's decoder, anything else becomes a deferred handle
\* carrying the correlation id.
C8_WrapClassification ==
    (FnDone("wrap_with_lazy_value") /\ arg.only_if_necessary)
        => LET value == arg.value IN
           IF value = None THEN ret.value = None /\ decoder_lookups = <<>>
           ELSE IF value.t \in ClaimedPrimitives
                THEN ret.value = value /\ decoder_lookups = <<>>
           ELSE IF value.t = "dict" /\ "timezone" \in DOMAIN value
                THEN /\ ret.value = [t |-> "datetime", v |-> value.v]
                     /\ decoder_lookups = <<arg.request_uuid>>
           ELSE /\ ret.value = [t |-> "LazyValue", wrapped_value |-> value,
                                request_uuid |-> arg.request_uuid]
                /\ decoder_lookups = <<>>

\* the name the claim gives a model: the first clause that resolves decides
RECURSIVE ClaimedTableName(_)
ClaimedTableName(model) ==
    IF "tablename" \in DOMAIN model THEN model.tablename
    ELSE IF "table" \in DOMAIN model THEN model.table.name
    ELSE IF "class_" \in DOMAIN model THEN model.class_.tablename
    ELSE IF "clauses" \in DOMAIN model
         THEN LET resolving == {i \in DOMAIN model.clauses :
                                   ClaimedTableName(model.clauses[i]) # "none"}
              IN IF resolving = {} THEN "none"
                 ELSE ClaimedTableName(
                          model.clauses[CHOOSE i \in resolving :
                                           \A j \in resolving : i <= j])
    ELSE "none"

\* C9: find_table_name returns the entity's own table name, else its table
\* descriptor's, else its mapped class's, else the name of the first clause
\* that resolves (a clause resolving to "none" is skipped), else "none".
C9_FirstResolvingClause ==
    FnDone("find_table_name") => ret.value = ClaimedTableName(arg.model)

\* C10: in the no-function branch with two or more projected selectables
\* every returned row has one entry per projected selectable.
C10_OneEntryPerSelectable ==
    (pc = "returned" /\ ~VisibleFunction /\ Len(Projected(models)) >= 2)
        => \A r \in DOMAIN returned :
              /\ returned[r].t = "list"
              /\ Len(returned[r].items) = Len(Projected(models))

====
